---- MODULE Spec2Model ----
(***************************************************************************)
(* A model of utils/pixel_buffer.py of the material-combiner addon: the    *)
(* pixel buffers (numpy arrays of shape (height, width, channels)), their  *)
(* acquisition from host images with colorspace conversion, and the        *)
(* compositor pixel_buffer_paste.                                          *)
(*                                                                         *)
(* Pixel values are fixed-point integers in units of 1e-7 (10000000 is     *)
(* 1.0).  A buffer is a record [kind |-> "ndarray", shape |-> <<h, w, c>>, *)
(* data |-> the flat row-major values], in stored orientation: row 0 is    *)
(* the bottom row of the image, as in the host.                            *)
(***************************************************************************)
EXTENDS Integers, Sequences, FiniteSets, TLC

VARIABLES
    target_buffer,  \* the buffer pixel_buffer_paste mutates (stored orientation)
    images,         \* bpy.data.images: image id -> host image record
    call,           \* the arguments of the operation that ran, with the state it found
    raised,         \* the exception the operation left with, or "none"
    returned,       \* the value the operation returned, or NoValue
    trace,          \* the host accesses and conversions the operation made, in program order
    backend         \* the __get_buffer_internal that bpy.app.version selected at import

vars == <<target_buffer, images, call, raised, returned, trace, backend>>

-----------------------------------------------------------------------------
(* Bounds of the model *)

MaxWidth == 2
MaxHeight == 2
Margin == 1

(* new_pixel_buffer: a pixel has between 1 and 4 components *)
MaxChannels == 4

Max(a, b) == IF a >= b THEN a ELSE b
Min(a, b) == IF a <= b THEN a ELSE b

NoValue == [kind |-> "unset"]
PyNone == [kind |-> "None"]

-----------------------------------------------------------------------------
(* numpy arrays.  An array of shape (h, w, c) is its flat, row-major data   *)
(* (what the host hands over, and what buffer.shape = ... reinterprets)    *)
(* with the shape: element [r, x, k] is data[(r * w + x) * c + k + 1].     *)

Size(shape) == shape[1] * shape[2] * shape[3]

Offset(shape, r, x, k) == (r * shape[2] + x) * shape[3] + k + 1

Elem(a, r, x, k) == a.data[Offset(a.shape, r, x, k)]

(* The row, column and channel of the i-th element (i from 1) *)
RowOf(shape, i) == (i - 1) \div (shape[2] * shape[3])
ColOf(shape, i) == ((i - 1) \div shape[3]) % shape[2]
ChanOf(shape, i) == (i - 1) % shape[3]

(* An array each of whose elements carries its own index above a base, so  *)
(* that a copy shows where it came from                                    *)
IndexValue(base, r, x, k) == base + 10000 * r + 100 * x + k

NdArray3(h, w, c, base) ==
    [kind |-> "ndarray", shape |-> <<h, w, c>>,
     data |-> [i \in 1 .. h * w * c |->
                  IndexValue(base, RowOf(<<h, w, c>>, i), ColOf(<<h, w, c>>, i),
                             ChanOf(<<h, w, c>>, i))]]

NdArray1(items) == [kind |-> "ndarray", shape |-> <<Len(items)>>, data |-> items]

NdArray2(h, w) == [kind |-> "ndarray", shape |-> <<h, w>>, data |-> <<>>]

PyTuple(items) == [kind |-> "tuple", items |-> items]

PyFloat(v) == [kind |-> "float", value |-> v]

(* The flip forgotten: the array as it is stored *)
NotFlipped(a) == a

(* a[::-1, :, :]: the same elements seen with the row axis reversed.  A    *)
(* write through the view is a write to the array, so a view that was      *)
(* written is stored back by reversing it again.                           *)
FlipRows(a) ==
    LET rowlen == a.shape[2] * a.shape[3]
        last == (a.shape[1] - 1) * rowlen
    IN  [a EXCEPT !.data = [i \in 1 .. Size(a.shape) |->
            a.data[last - ((i - 1) \div rowlen) * rowlen + ((i - 1) % rowlen) + 1]]]

(* Python's slice start:stop over an axis of length n: a negative index    *)
(* counts from the end, and both ends are clamped to the axis.             *)
SliceIndex(i, n) == IF i < 0 THEN Max(i + n, 0) ELSE Min(i, n)

Slice(start, stop, n) ==
    LET s == SliceIndex(start, n)
        e == SliceIndex(stop, n)
    IN  [lo |-> s, len |-> Max(e - s, 0)]

(* numpy's rule for a[region] = value: the value's shape, right-aligned,   *)
(* must equal the region's in every axis or be 1 there.                    *)
BroadcastsTo(vshape, rshape) ==
    /\ Len(vshape) <= Len(rshape)
    /\ \A k \in 1 .. Len(vshape) :
          LET v == vshape[k]
              r == rshape[k + Len(rshape) - Len(vshape)]
          IN  v = r \/ v = 1

(* a[rows, cols, :]: the sub-array a slice expression selects *)
SubArray(a, rows, cols) ==
    LET shape == <<rows.len, cols.len, a.shape[3]>>
    IN  [kind |-> "ndarray",
         shape |-> shape,
         data |-> [i \in 1 .. Size(shape) |->
            Elem(a, rows.lo + RowOf(shape, i), cols.lo + ColOf(shape, i), ChanOf(shape, i))]]

(* np.asarray of what is assigned: a tuple or list becomes a 1D array *)
AsArray(x) == IF x.kind = "tuple" THEN NdArray1(x.items) ELSE x

(* The element of the (broadcast) value that lands on index [i, j, k] of   *)
(* the region.                                                             *)
BroadcastAt(v, i, j, k) ==
    IF Len(v.shape) = 1
    THEN v.data[(IF v.shape[1] = 1 THEN 0 ELSE k) + 1]
    ELSE Elem(v, IF v.shape[1] = 1 THEN 0 ELSE i,
                 IF v.shape[2] = 1 THEN 0 ELSE j,
                 IF v.shape[3] = 1 THEN 0 ELSE k)

BroadcastError == "ValueError: could not broadcast input array"

InSlice(sl, i) == sl.lo <= i /\ i < sl.lo + sl.len

(* a[::-1, :, :][rows, cols, chans] = value: an assignment through the     *)
(* row-reversed view of a, whose row r is the array's row h - 1 - r.       *)
(* numpy checks the shapes before it copies anything: a value that does    *)
(* not broadcast raises ValueError and leaves the array as it was.         *)
SetItemFlipped(a, rows, cols, chans, value) ==
    LET v == AsArray(value)
    IN  IF ~BroadcastsTo(v.shape, <<rows.len, cols.len, chans.len>>)
        THEN [raised |-> BroadcastError, array |-> a]
        ELSE [raised |-> "none",
              array |-> [a EXCEPT !.data = [i \in 1 .. Size(a.shape) |->
                  LET r == a.shape[1] - 1 - RowOf(a.shape, i)
                      x == ColOf(a.shape, i)
                      k == ChanOf(a.shape, i)
                  IN  IF InSlice(rows, r) /\ InSlice(cols, x) /\ InSlice(chans, k)
                      THEN BroadcastAt(v, r - rows.lo, x - cols.lo, k - chans.lo)
                      ELSE a.data[i]]]]

-----------------------------------------------------------------------------
(* pixel_buffer_paste *)

PyLen(x) == IF x.kind = "tuple" THEN Len(x.items) ELSE x.shape[1]

MalformedSourceBuffer == "TypeError: source buffer or pixel could not be parsed for pasting"
MalformedSourcePixel == "TypeError: source pixel could not be parsed for pasting"
BoxRequired == "TypeError: When pasting a pixel color, a box region to paste to must be supplied"
BadCornerOrBox == "TypeError: corner or box must be either a 2-tuple or 4-tuple"
ChannelOverflow == "TypeError: Pixels in source have more channels than pixels in target, they cannot be pasted"

(* Source-kind resolution: "buffer" (source_is_pixel = False), "pixel"     *)
(* (source_is_pixel = True) or the TypeError raised.                       *)
source_kind(target_channels, source_buffer_or_pixel) ==
    IF source_buffer_or_pixel.kind = "ndarray"
    THEN LET source_dimensions == Len(source_buffer_or_pixel.shape)
         IN  IF source_dimensions = 3 THEN "buffer"
             ELSE IF source_dimensions = 1 /\ target_channels >= source_dimensions
                  THEN "pixel"
                  ELSE MalformedSourceBuffer
    ELSE IF source_buffer_or_pixel.kind = "tuple"
            /\ target_channels >= Len(source_buffer_or_pixel.items)
         THEN "pixel"
         ELSE MalformedSourcePixel

(* fit_box without the clipping of the left edge *)
fit_box_left_unclipped(box, shape) ==
    <<box[1], Max(box[2], 0), Min(box[3], shape[2] + 1), Min(box[4], shape[1] + 1)>>

(* fit_box, for a target of the given shape *)
fit_box(box, shape) ==
    <<Max(box[1], 0), Max(box[2], 0),
      Min(box[3], shape[2] + 1), Min(box[4], shape[1] + 1)>>

(* The branch for a pixel colour.  The target is written through its view  *)
(* target_buffer[::-1, :, :], which has the target's shape.                *)
paste_pixel(target, source_pixel, corner_or_box) ==
    IF Len(corner_or_box) # 4
    THEN [raised |-> BoxRequired, array |-> target]
    ELSE LET fit == fit_box(corner_or_box, target.shape)
             num_source_channels == PyLen(source_pixel)
         IN  SetItemFlipped(target,
                            Slice(fit[2], fit[4], target.shape[1]),
                            Slice(fit[1], fit[3], target.shape[2]),
                            Slice(0, num_source_channels, target.shape[3]),
                            source_pixel)

(* The box a corner or box stands for, for a source of the given shape *)
parse_box(corner_or_box, source_shape) ==
    IF Len(corner_or_box) = 2
    THEN <<corner_or_box[1], corner_or_box[2],
           corner_or_box[1] + source_shape[2], corner_or_box[2] + source_shape[1]>>
    ELSE corner_or_box

(* source_channels_fit with the comparison turned round *)
source_channels_fit_reversed(target_channels, source_channels) ==
    target_channels <= source_channels

source_channels_fit(target_channels, source_channels) ==
    target_channels >= source_channels

(* The branch for a source buffer *)
paste_buffer(target, source, corner_or_box) ==
    LET source_buffer == FlipRows(source)
        box == parse_box(corner_or_box, source_buffer.shape)
    IN  IF Len(corner_or_box) \notin {2, 4}
        THEN [raised |-> BadCornerOrBox, array |-> target]
        ELSE IF ~source_channels_fit(target.shape[3], source_buffer.shape[3])
        THEN [raised |-> ChannelOverflow, array |-> target]
        ELSE LET fit == fit_box(box, target.shape)
                 source_left == fit[1] - box[1]
                 source_upper == fit[2] - box[2]
                 source_right == source_buffer.shape[2] - box[3] + fit[3]
                 source_lower == source_buffer.shape[1] - box[4] + fit[4]
                 num_source_channels == source_buffer.shape[3]
             IN  SetItemFlipped(target,
                     Slice(fit[2], fit[4], target.shape[1]),
                     Slice(fit[1], fit[3], target.shape[2]),
                     Slice(0, num_source_channels, target.shape[3]),
                     SubArray(source_buffer,
                              Slice(source_upper, source_lower, source_buffer.shape[1]),
                              Slice(source_left, source_right, source_buffer.shape[2])))

(* pixel_buffer_paste(target_buffer, source_buffer_or_pixel, corner_or_box): *)
(* the exception raised and the target as the call leaves it               *)
pixel_buffer_paste(target, source_buffer_or_pixel, corner_or_box) ==
    LET kind == source_kind(target.shape[3], source_buffer_or_pixel)
        out == IF kind = "pixel"
               THEN paste_pixel(target, source_buffer_or_pixel, corner_or_box)
               ELSE IF kind = "buffer"
               THEN paste_buffer(target, source_buffer_or_pixel, corner_or_box)
               ELSE [raised |-> kind, array |-> target]
    IN  [raised |-> out.raised, target |-> out.array]

-----------------------------------------------------------------------------
(* The inputs of the compositor *)

(* Targets hold values from 0.1, sources from 0.5, colours from 0.9 *)
ColorValue(k) == 9000000 + k

Heights == 1 .. MaxHeight
Widths == 1 .. MaxWidth
Channels == 1 .. MaxChannels

Targets == {NdArray3(h, w, c, 1000000) : h \in Heights, w \in Widths, c \in Channels}

SourceBuffers == {NdArray3(h, w, c, 5000000) : h \in Heights, w \in Widths, c \in Channels}

Color(n) == [k \in 1 .. n |-> ColorValue(k)]

ColorTuples == {PyTuple(Color(n)) : n \in 0 .. MaxChannels + 1}

ColorArrays == {NdArray1(Color(n)) : n \in 1 .. MaxChannels + 1}

OtherSources == {NdArray2(1, 1), PyFloat(ColorValue(1))}

XCoords == -Margin .. MaxWidth + Margin
YCoords == -Margin .. MaxHeight + Margin

Corners == {<<l, u>> : l \in XCoords, u \in YCoords}

(* Boxes with left <= right and upper <= lower *)
Boxes == {b \in XCoords \X YCoords \X XCoords \X YCoords : b[1] <= b[3] /\ b[2] <= b[4]}

(* The box of one pixel at each corner, for a colour given as an array *)
PixelBoxes == {<<c[1], c[2], c[1] + 1, c[2] + 1>> : c \in Corners}

(* A box given with a buffer: the source's own size, or off by one *)
Grows == {<<0, 0>>, <<1, -1>>}

Triples == {<<0, 0, 1>>}

-----------------------------------------------------------------------------
(* The compositor as a state machine: a target is given, and one call of   *)
(* pixel_buffer_paste runs on it.                                          *)

NoCall == [op |-> "none"]

NoImages == <<>>

InitPaste ==
    /\ target_buffer \in Targets
    /\ images = NoImages
    /\ call = NoCall
    /\ raised = "none"
    /\ returned = NoValue
    /\ trace = <<>>
    /\ backend = "foreach_get"

Paste(source_buffer_or_pixel, corner_or_box) ==
    /\ LET out == pixel_buffer_paste(target_buffer, source_buffer_or_pixel, corner_or_box)
       IN  /\ target_buffer' = out.target
           /\ raised' = out.raised
           /\ returned' = IF out.raised = "none" THEN PyNone ELSE NoValue
    /\ call' = [op |-> "pixel_buffer_paste", target |-> target_buffer,
                source |-> source_buffer_or_pixel, corner_or_box |-> corner_or_box]
    /\ UNCHANGED <<images, trace, backend>>

PasteColor ==
    /\ call.op = "none"
    /\ \E color \in ColorTuples, box \in Boxes \cup Triples :
          Paste(color, box)

PasteColorArray ==
    /\ call.op = "none"
    /\ \E color \in ColorArrays, box \in PixelBoxes \cup Corners :
          Paste(color, box)

PasteBufferAtCorner ==
    /\ call.op = "none"
    /\ \E source \in SourceBuffers, corner \in Corners \cup Triples :
          Paste(source, corner)

PasteBufferInBox ==
    /\ call.op = "none"
    /\ \E source \in SourceBuffers, corner \in Corners, grow \in Grows :
          Paste(source, <<corner[1], corner[2],
                          corner[1] + source.shape[2] + grow[1],
                          corner[2] + source.shape[1] + grow[2]>>)

PasteOther ==
    /\ call.op = "none"
    /\ \E source \in OtherSources, corner_or_box \in Corners :
          Paste(source, corner_or_box)

NextPaste ==
    \/ PasteColor
    \/ PasteColorArray
    \/ PasteBufferAtCorner
    \/ PasteBufferInBox
    \/ PasteOther

SpecPaste == InitPaste /\ [][NextPaste]_vars

-----------------------------------------------------------------------------
(* Properties of the compositor.  They speak of the target before the call *)
(* (call.target), the target after it (target_buffer) and the exception,   *)
(* in cartesian coordinates: column x, row y counted from the top, which   *)
(* is stored row h - 1 - y.                                                *)

Pasted == call.op = "pixel_buffer_paste"

Cart(a, x, y, k) == Elem(a, a.shape[1] - 1 - y, x, k)

TargetW == call.target.shape[2]
TargetH == call.target.shape[1]
TargetC == call.target.shape[3]

Cols(a) == 0 .. a.shape[2] - 1
Rows(a) == 0 .. a.shape[1] - 1
Chans(a) == 0 .. a.shape[3] - 1

IsBuffer(x) == x.kind = "ndarray" /\ Len(x.shape) = 3
IsColorArray(x) == x.kind = "ndarray" /\ Len(x.shape) = 1
IsColorTuple(x) == x.kind = "tuple"

TargetUnchanged == target_buffer = call.target

(* The box the call is about *)
CallBox ==
    IF Len(call.corner_or_box) = 2
    THEN <<call.corner_or_box[1], call.corner_or_box[2],
           call.corner_or_box[1] + call.source.shape[2],
           call.corner_or_box[2] + call.source.shape[1]>>
    ELSE call.corner_or_box

(* The part of the box that lies on the target: columns [ClipLeft,         *)
(* ClipRight) and rows [ClipUpper, ClipLower)                              *)
ClipLeft == Max(CallBox[1], 0)
ClipUpper == Max(CallBox[2], 0)
ClipRight == Min(CallBox[3], TargetW)
ClipLower == Min(CallBox[4], TargetH)

InClip(x, y) == ClipLeft <= x /\ x < ClipRight /\ ClipUpper <= y /\ y < ClipLower

(* C1: a sub-image pasted at a corner inside the target that overhangs     *)
(* its right or lower edge completes without error, overwrites exactly the *)
(* overlapping region, in the source's channels, with the source's         *)
(* sub-rectangle that starts at its (0, 0), and changes nothing else.      *)
C1_PartialOverlapPaste ==
    (/\ Pasted
     /\ IsBuffer(call.source)
     /\ Len(call.corner_or_box) = 2
     /\ call.source.shape[3] <= TargetC
     /\ 0 <= CallBox[1] /\ CallBox[1] < TargetW
     /\ 0 <= CallBox[2] /\ CallBox[2] < TargetH
     /\ (CallBox[3] > TargetW \/ CallBox[4] > TargetH))
    => /\ raised = "none"
       /\ target_buffer.shape = call.target.shape
       /\ \A x \in Cols(call.target), y \in Rows(call.target), k \in Chans(call.target) :
             Cart(target_buffer, x, y, k) =
                IF InClip(x, y) /\ k < call.source.shape[3]
                THEN Cart(call.source, x - CallBox[1], y - CallBox[2], k)
                ELSE Cart(call.target, x, y, k)

(* A paste the compositor accepts: a colour no longer than the target's    *)
(* channels with a box, or a buffer with no more channels than the target  *)
(* with a corner or a box.                                                 *)
WellFormedPaste ==
    /\ Pasted
    /\ \/ /\ IsColorTuple(call.source) \/ IsColorArray(call.source)
          /\ PyLen(call.source) <= TargetC
          /\ Len(call.corner_or_box) = 4
       \/ /\ IsBuffer(call.source)
          /\ call.source.shape[3] <= TargetC
          /\ Len(call.corner_or_box) \in {2, 4}

(* C2: a paste whose box has no area on the target (zero area after        *)
(* clipping, or entirely outside on any side) returns without raising and  *)
(* leaves the target as it was.                                            *)
C2_OutsidePasteIsNoOp ==
    (WellFormedPaste /\ (ClipRight <= ClipLeft \/ ClipLower <= ClipUpper))
    => raised = "none" /\ TargetUnchanged

(* C3: a colour of k components (1 <= k <= channels, a tuple or list)      *)
(* pasted into a box that overlaps the target sets channels 0..k-1 of      *)
(* exactly the pixels of the clipped box to the colour and leaves every    *)
(* other element of the target unchanged.                                  *)
C3_ColorPasteClipsAndFrames ==
    (/\ Pasted
     /\ IsColorTuple(call.source)
     /\ 1 <= PyLen(call.source) /\ PyLen(call.source) <= TargetC
     /\ Len(call.corner_or_box) = 4
     /\ CallBox[1] < CallBox[3] /\ CallBox[2] < CallBox[4]
     /\ CallBox[3] > 0 /\ CallBox[4] > 0
     /\ CallBox[1] < TargetW /\ CallBox[2] < TargetH)
    => /\ raised = "none"
       /\ target_buffer.shape = call.target.shape
       /\ \A x \in Cols(call.target), y \in Rows(call.target), k \in Chans(call.target) :
             Cart(target_buffer, x, y, k) =
                IF InClip(x, y) /\ k < PyLen(call.source)
                THEN call.source.items[k + 1]
                ELSE Cart(call.target, x, y, k)

(* A colour shorter than the target's channels was pasted into a box that  *)
(* reaches over the target's left and upper edges, and some pixel stayed   *)
(* outside it.                                                             *)
C3_Witness ==
    /\ Pasted
    /\ IsColorTuple(call.source)
    /\ PyLen(call.source) = 3 /\ TargetC = 4
    /\ call.corner_or_box = <<-1, -1, 1, 1>>
    /\ TargetW = 2 /\ TargetH = 2
    /\ raised = "none"
    /\ Cart(target_buffer, 0, 0, 0) = call.source.items[1]
    /\ Cart(target_buffer, 1, 1, 0) = Cart(call.target, 1, 1, 0)

(* C6: a colour longer than the target's channels, a 1D array or a tuple,  *)
(* is rejected with the malformed-source TypeError and the target is left  *)
(* as it was.                                                              *)
C6_OverlongColorRejected ==
    (/\ Pasted
     /\ IsColorTuple(call.source) \/ IsColorArray(call.source)
     /\ PyLen(call.source) > TargetC)
    => /\ raised \in {MalformedSourceBuffer, MalformedSourcePixel}
       /\ TargetUnchanged

(* C7: a buffer with more channels than the target, pasted at a corner or  *)
(* into a box, fails with the channel-overflow TypeError and every element *)
(* of the target is as before.                                             *)
C7_ChannelOverflowRejected ==
    (/\ Pasted
     /\ IsBuffer(call.source)
     /\ call.source.shape[3] > TargetC
     /\ Len(call.corner_or_box) \in {2, 4})
    => /\ raised = ChannelOverflow
       /\ returned = NoValue
       /\ TargetUnchanged

(* A 4-channel buffer was pasted into a 3-channel target over its pixels *)
C7_Witness ==
    /\ Pasted
    /\ IsBuffer(call.source)
    /\ call.source.shape[3] = 4 /\ TargetC = 3
    /\ call.corner_or_box = <<0, 0>>
    /\ raised = ChannelOverflow

-----------------------------------------------------------------------------
(* Colorspace conversion.  Values are in units of 1e-7.                    *)

linear_colorspaces == {"Linear", "Non-Color", "Raw"}
supported_colorspaces == linear_colorspaces \cup {"sRGB"}

(* 0.0031308 and 0.04045, the ends of the linear segments *)
LinearSegmentEnd == 31308
SrgbSegmentEnd == 404500

(* The values host images hold in this model: below zero, zero, inside and *)
(* at the end of each linear segment, mid-range, one, above one            *)
PixelSamples ==
    <<-1000000, 0, 20000, 31308, 300000, 404500, 5000000, 10000000, 15000000>>

(* 1.055 * c ** (1.0 / 2.4) - 0.055, to 1e-7, at the sampled values *)
LinearToSrgbCurve(c) ==
    CASE c = 31308 -> 404499
      [] c = 300000 -> 1897483
      [] c = 404500 -> 2222055
      [] c = 5000000 -> 7353570
      [] c = 10000000 -> 10000000
      [] c = 15000000 -> 11941765

(* ((c + 0.055) / 1.055) ** 2.4, to 1e-7, at the sampled values *)
SrgbToLinearCurve(c) ==
    CASE c = 404500 -> 31308
      [] c = 5000000 -> 2140411
      [] c = 10000000 -> 10000000
      [] c = 15000000 -> 25371552

(* What buffer_convert_linear_to_srgb does to one RGB component *)
linear_to_srgb(c) ==
    IF c < LinearSegmentEnd
    THEN IF c < 0 THEN 0 ELSE (c * 1292) \div 100
    ELSE LinearToSrgbCurve(c)

(* What buffer_convert_srgb_to_linear does to one RGB component *)
srgb_to_linear(c) ==
    IF c < SrgbSegmentEnd
    THEN IF c < 0 THEN 0 ELSE (c * 100) \div 1292
    ELSE SrgbToLinearCurve(c)

(* buffer[:, :, :3]: the channels a conversion touches *)
InRgbView(shape, i) == ChanOf(shape, i) < 3

buffer_convert_linear_to_srgb(buffer) ==
    [buffer EXCEPT !.data = [i \in 1 .. Size(buffer.shape) |->
        IF InRgbView(buffer.shape, i) THEN linear_to_srgb(buffer.data[i])
                                      ELSE buffer.data[i]]]

buffer_convert_srgb_to_linear(buffer) ==
    [buffer EXCEPT !.data = [i \in 1 .. Size(buffer.shape) |->
        IF InRgbView(buffer.shape, i) THEN srgb_to_linear(buffer.data[i])
                                      ELSE buffer.data[i]]]

-----------------------------------------------------------------------------
(* Buffer acquisition.  A host image is a record [size |-> <<width,        *)
(* height>>, channels, colorspace (colorspace_settings.name), pixels (the  *)
(* flat raw data), bindcode (its OpenGL texture, 0 when not loaded)].      *)
(* An operation that runs on the host answers with [raised, returned,      *)
(* images, trace]: the exception or "none", the value returned, the        *)
(* host's images as it leaves them, and the accesses it made.              *)

UnsupportedImageColorspace == "TypeError: Unsupported image colorspace"
UnsupportedAtlasColorspace == "TypeError: Unsupported atlas colorspace"

(* __get_buffer_internal on Blender 2.83 and later: foreach_get of the raw *)
(* pixels into a flat buffer                                               *)
get_buffer_foreach_get(imgs, img) ==
    [buffer |-> imgs[img].pixels,
     images |-> imgs,
     trace |-> <<<<"pixels", img>>, <<"foreach_get", img>>>>]

(* __get_buffer_internal before Blender 2.83: the image is freed from and  *)
(* loaded into OpenGL and read back from its texture; when gl_load fails   *)
(* (gl_ok is FALSE) the pixels are iterated instead.  The texture holds    *)
(* the image's raw pixels.                                                 *)
get_buffer_gl(imgs, img, gl_ok) ==
    LET freed == IF imgs[img].bindcode # 0
                 THEN <<<<"bindcode", img>>, <<"gl_free", img>>>>
                 ELSE <<<<"bindcode", img>>>>
        head == <<<<"pixels", img>>>> \o freed \o <<<<"gl_load", img>>>>
    IN  IF gl_ok
        THEN [buffer |-> imgs[img].pixels,
              images |-> [imgs EXCEPT ![img].bindcode = 1],
              trace |-> head \o <<<<"glBindTexture", img>>, <<"glGetTexImage", img>>>>]
        ELSE [buffer |-> imgs[img].pixels,
              images |-> [imgs EXCEPT ![img].bindcode = 0],
              trace |-> head \o <<<<"fromiter", img>>>>]

get_buffer_internal(imgs, img, version, gl_ok) ==
    IF version = "foreach_get"
    THEN get_buffer_foreach_get(imgs, img)
    ELSE get_buffer_gl(imgs, img, gl_ok)

(* colorspace_branch with the two conversions exchanged *)
colorspace_branch_swapped(atlas_colorspace, img_color_space) ==
    IF atlas_colorspace = "sRGB"
    THEN IF img_color_space = "sRGB" THEN "return"
         ELSE IF img_color_space \in linear_colorspaces THEN "srgb_to_linear"
         ELSE UnsupportedImageColorspace
    ELSE IF atlas_colorspace \in linear_colorspaces
    THEN IF img_color_space \in linear_colorspaces THEN "return"
         ELSE IF img_color_space = "sRGB" THEN "linear_to_srgb"
         ELSE "fall through"
    ELSE UnsupportedAtlasColorspace

(* colorspace_branch without its last else: an atlas colorspace that is    *)
(* not supported falls off the end                                         *)
colorspace_branch_no_else(atlas_colorspace, img_color_space) ==
    IF atlas_colorspace = "sRGB"
    THEN IF img_color_space = "sRGB" THEN "return"
         ELSE IF img_color_space \in linear_colorspaces THEN "linear_to_srgb"
         ELSE UnsupportedImageColorspace
    ELSE IF atlas_colorspace \in linear_colorspaces
    THEN IF img_color_space \in linear_colorspaces THEN "return"
         ELSE IF img_color_space = "sRGB" THEN "srgb_to_linear"
         ELSE "fall through"
    ELSE "fall through"

(* The branch get_pixel_buffer takes for an atlas and an image colorspace: *)
(* "return" the buffer as read, convert it ("linear_to_srgb",              *)
(* "srgb_to_linear"), raise, or fall off the end of the function.          *)
colorspace_branch(atlas_colorspace, img_color_space) ==
    IF atlas_colorspace = "sRGB"
    THEN IF img_color_space = "sRGB" THEN "return"
         ELSE IF img_color_space \in linear_colorspaces THEN "linear_to_srgb"
         ELSE UnsupportedImageColorspace
    ELSE IF atlas_colorspace \in linear_colorspaces
    THEN IF img_color_space \in linear_colorspaces THEN "return"
         ELSE IF img_color_space = "sRGB" THEN "srgb_to_linear"
         ELSE "fall through"
    ELSE UnsupportedAtlasColorspace

get_pixel_buffer(imgs, img, atlas_colorspace, version, gl_ok) ==
    LET width == imgs[img].size[1]
        height == imgs[img].size[2]
        channels == imgs[img].channels
        read == get_buffer_internal(imgs, img, version, gl_ok)
        buffer == [kind |-> "ndarray", shape |-> <<height, width, channels>>,
                   data |-> read.buffer]
        img_color_space == read.images[img].colorspace
        accesses == <<<<"size", img>>, <<"channels", img>>>> \o read.trace
                        \o <<<<"colorspace_settings.name", img>>>>
        branch == colorspace_branch(atlas_colorspace, img_color_space)
    IN  CASE branch = "return" ->
               [raised |-> "none", returned |-> buffer,
                images |-> read.images, trace |-> accesses]
          [] branch = "linear_to_srgb" ->
               [raised |-> "none", returned |-> buffer_convert_linear_to_srgb(buffer),
                images |-> read.images,
                trace |-> Append(accesses, <<"buffer_convert_linear_to_srgb">>)]
          [] branch = "srgb_to_linear" ->
               [raised |-> "none", returned |-> buffer_convert_srgb_to_linear(buffer),
                images |-> read.images,
                trace |-> Append(accesses, <<"buffer_convert_srgb_to_linear">>)]
          [] branch = "fall through" ->
               [raised |-> "none", returned |-> PyNone,
                images |-> read.images, trace |-> accesses]
          [] OTHER ->
               [raised |-> branch, returned |-> NoValue,
                images |-> read.images, trace |-> accesses]

(* img.copy(): a new image with the data of img, not loaded into OpenGL *)
NewImageId(imgs) == Cardinality(DOMAIN imgs) + 1

image_copy(imgs, img) ==
    [i \in DOMAIN imgs \cup {NewImageId(imgs)} |->
        IF i \in DOMAIN imgs THEN imgs[i] ELSE [imgs[img] EXCEPT !.bindcode = 0]]

(* image.scale(width, height): the image resampled to the new size (here   *)
(* to the nearest pixel)                                                   *)
image_scale(imgs, img, width, height) ==
    LET old == imgs[img]
        c == old.channels
        shape == <<height, width, c>>
    IN  [imgs EXCEPT ![img] = [old EXCEPT
            !.size = <<width, height>>,
            !.bindcode = 0,
            !.pixels = [i \in 1 .. Size(shape) |->
                old.pixels[Offset(<<old.size[2], old.size[1], c>>,
                                  (RowOf(shape, i) * old.size[2]) \div height,
                                  (ColOf(shape, i) * old.size[1]) \div width,
                                  ChanOf(shape, i))]]]]

(* bpy.data.images.remove(image) *)
images_remove(imgs, img) == [i \in DOMAIN imgs \ {img} |-> imgs[i]]

get_resized_pixel_buffer(imgs, img, size, version, gl_ok) ==
    LET copy == NewImageId(imgs)
        copied == image_copy(imgs, img)
        scaled == image_scale(copied, copy, size[1], size[2])
        got == get_pixel_buffer(scaled, copy, "sRGB", version, gl_ok)
        before == <<<<"copy", img>>, <<"scale", copy>>>> \o got.trace
    IN  IF got.raised # "none"
        THEN [raised |-> got.raised, returned |-> NoValue,
              images |-> got.images, trace |-> before]
        ELSE [raised |-> "none", returned |-> got.returned,
              images |-> images_remove(got.images, copy),
              trace |-> Append(before, <<"remove", copy>>)]

-----------------------------------------------------------------------------
(* The host as a state machine: one image is in bpy.data.images, and one   *)
(* acquisition runs on it.                                                 *)

ColorspaceNames == supported_colorspaces \cup {"Filmic Log", "XYZ"}

Phases == {0, 4}

Pixels(n, phase) ==
    [i \in 1 .. n |-> PixelSamples[((i - 1 + phase) % Len(PixelSamples)) + 1]]

HostImages ==
    {[size |-> <<w, h>>, channels |-> c, colorspace |-> cs,
      pixels |-> Pixels(w * h * c, phase), bindcode |-> b] :
        w \in Widths, h \in Heights, c \in Channels,
        cs \in ColorspaceNames, phase \in Phases, b \in {0, 1}}

NoBuffer == NdArray3(0, 0, 0, 0)

InitAcquire ==
    /\ target_buffer = NoBuffer
    /\ \E image \in HostImages : images = <<image>>
    /\ call = NoCall
    /\ raised = "none"
    /\ returned = NoValue
    /\ trace = <<>>
    /\ backend \in {"foreach_get", "gl"}

Ran(op, img, arg, out) ==
    /\ call' = [op |-> op, img |-> img, arg |-> arg, images |-> images]
    /\ raised' = out.raised
    /\ returned' = out.returned
    /\ images' = out.images
    /\ trace' = out.trace
    /\ UNCHANGED <<target_buffer, backend>>

GetPixelBuffer ==
    /\ call.op = "none"
    /\ \E img \in DOMAIN images, atlas_colorspace \in ColorspaceNames, gl_ok \in BOOLEAN :
          Ran("get_pixel_buffer", img, atlas_colorspace,
              get_pixel_buffer(images, img, atlas_colorspace, backend, gl_ok))

GetResizedPixelBuffer ==
    /\ call.op = "none"
    /\ \E img \in DOMAIN images, w \in Widths, h \in Heights, gl_ok \in BOOLEAN :
          Ran("get_resized_pixel_buffer", img, <<w, h>>,
              get_resized_pixel_buffer(images, img, <<w, h>>, backend, gl_ok))

NextAcquire == GetPixelBuffer \/ GetResizedPixelBuffer

SpecAcquire == InitAcquire /\ [][NextAcquire]_vars

-----------------------------------------------------------------------------
(* Properties of acquisition.  call.images is the host's images as the     *)
(* operation found them, call.img the image it was given, call.arg the     *)
(* atlas colorspace or the size.                                           *)

Acquired == call.op = "get_pixel_buffer"

Resized == call.op = "get_resized_pixel_buffer"

GivenImage == call.images[call.img]

IsConversion(e) ==
    e[1] \in {"buffer_convert_linear_to_srgb", "buffer_convert_srgb_to_linear"}

Conversions == SelectSeq(trace, IsConversion)

IsRead(e) == e[1] \in {"pixels", "foreach_get", "glGetTexImage", "fromiter"}

(* C4: with a supported atlas colorspace, an image whose colorspace is not *)
(* one of sRGB, Linear, Non-Color, Raw makes get_pixel_buffer raise the    *)
(* unsupported-colorspace TypeError; it never returns.                     *)
C4_UnsupportedImageColorspaceRaises ==
    (/\ Acquired
     /\ call.arg \in supported_colorspaces
     /\ GivenImage.colorspace \notin supported_colorspaces)
    => /\ raised = UnsupportedImageColorspace
       /\ returned = NoValue

(* C5: when get_resized_pixel_buffer has returned or raised, the copy it   *)
(* made is no longer among the host's images, and the image it was given   *)
(* is still there, as it was.                                              *)
C5_TemporaryCopyReleased ==
    Resized
    => /\ DOMAIN images = DOMAIN call.images
       /\ images[call.img] = GivenImage

(* C8: for a supported image colorspace and a supported atlas colorspace,  *)
(* get_pixel_buffer returns a buffer of shape (height, width, channels):   *)
(* the raw read untouched when both are sRGB or both linear-equivalent,    *)
(* the raw read after exactly one linear->sRGB conversion when the atlas   *)
(* is sRGB and the image linear-equivalent, and after exactly one          *)
(* sRGB->linear conversion when the atlas is linear-equivalent and the     *)
(* image sRGB.                                                             *)
C8_ConversionDispatch ==
    (/\ Acquired
     /\ call.arg \in supported_colorspaces
     /\ GivenImage.colorspace \in supported_colorspaces)
    => /\ raised = "none"
       /\ returned.kind = "ndarray"
       /\ returned.shape = <<GivenImage.size[2], GivenImage.size[1], GivenImage.channels>>
       /\ Len(returned.data) = Len(GivenImage.pixels)
       /\ LET atlas_linear == call.arg \in linear_colorspaces
              image_linear == GivenImage.colorspace \in linear_colorspaces
              rgb(i) == ((i - 1) % GivenImage.channels) < 3
          IN  /\ (atlas_linear = image_linear) =>
                    /\ Conversions = <<>>
                    /\ returned.data = GivenImage.pixels
              /\ (~atlas_linear /\ image_linear) =>
                    /\ Conversions = <<<<"buffer_convert_linear_to_srgb">>>>
                    /\ \A i \in 1 .. Len(GivenImage.pixels) :
                          returned.data[i] = IF rgb(i) THEN linear_to_srgb(GivenImage.pixels[i])
                                                       ELSE GivenImage.pixels[i]
              /\ (atlas_linear /\ ~image_linear) =>
                    /\ Conversions = <<<<"buffer_convert_srgb_to_linear">>>>
                    /\ \A i \in 1 .. Len(GivenImage.pixels) :
                          returned.data[i] = IF rgb(i) THEN srgb_to_linear(GivenImage.pixels[i])
                                                       ELSE GivenImage.pixels[i]

(* A Non-Color RGBA image was acquired for an sRGB atlas: its colour       *)
(* changed, its alpha did not.                                             *)
C8_Witness ==
    /\ Acquired
    /\ call.arg = "sRGB"
    /\ GivenImage.colorspace = "Non-Color"
    /\ GivenImage.channels = 4
    /\ raised = "none"
    /\ returned.data[3] # GivenImage.pixels[3]
    /\ returned.data[4] = GivenImage.pixels[4]
    /\ GivenImage.pixels[4] # 0

(* C9, as claimed: an atlas colorspace that is neither sRGB nor            *)
(* linear-equivalent makes get_pixel_buffer raise the unsupported          *)
(* colorspace TypeError before any access to the host image.               *)
C9_AtlasRejectedBeforeImageAccess ==
    (Acquired /\ call.arg \notin supported_colorspaces)
    => /\ raised = UnsupportedAtlasColorspace
       /\ trace = <<>>

(* C9, amended: an atlas colorspace that is neither sRGB nor               *)
(* linear-equivalent makes get_pixel_buffer raise the unsupported          *)
(* colorspace TypeError and return nothing, whatever the image's           *)
(* colorspace; the failure comes after the image's size, channels, raw     *)
(* pixels and colorspace name were read, and no conversion ran.            *)
C9_AtlasRejectedAfterImageRead ==
    (Acquired /\ call.arg \notin supported_colorspaces)
    => /\ raised = UnsupportedAtlasColorspace
       /\ returned = NoValue
       /\ Len(trace) >= 4
       /\ trace[1] = <<"size", call.img>>
       /\ trace[2] = <<"channels", call.img>>
       /\ \E n \in 3 .. Len(trace) - 1 : IsRead(trace[n])
       /\ trace[Len(trace)] = <<"colorspace_settings.name", call.img>>
       /\ Conversions = <<>>

(* An sRGB image was asked for with an unsupported atlas colorspace, and   *)
(* its pixels were read before the TypeError                               *)
C9_Witness ==
    /\ Acquired
    /\ call.arg = "XYZ"
    /\ GivenImage.colorspace = "sRGB"
    /\ raised = UnsupportedAtlasColorspace
    /\ \E n \in 1 .. Len(trace) : trace[n] = <<"foreach_get", call.img>>

====
